---- MODULE Spec2Model ----
(***************************************************************************)
(* A model of c19em_app.py, the Streamlit script of the COVID-19 email     *)
(* corpus explorer.  Streamlit re-executes the whole script on every user  *)
(* interaction, so one action of the model is one interaction followed by  *)
(* one complete top-to-bottom run of the script.                           *)
(*                                                                         *)
(* SQL text is modelled as a sequence of tokens.  The fragments the script *)
(* writes itself are whole-word tokens; the text the user types is one     *)
(* token per character, so that quoting is something the database's lexer  *)
(* decides and not something the model assumes.                            *)
(***************************************************************************)
EXTENDS Integers, Sequences, FiniteSets, TLC

\* ------------------------------------------------------------------ bounds

\* Longest full-text search string the user types.
MaxLen == 2

\* Characters the user can type: a word character and the SQL string
\* delimiter.  The double quote is what replace() produces.
Char == {"c", "'"}

\* Python's None, and the grid with no row selected.
None == "None"

\* ----------------------------------------------------------- sequence helpers

RECURSIVE SeqsUpTo(_, _)
SeqsUpTo(S, n) ==
    IF n = 0 THEN {<<>>}
    ELSE LET shorter == SeqsUpTo(S, n - 1)
         IN  shorter \cup {Append(s, c) : s \in {t \in shorter : Len(t) = n - 1}, c \in S}

Range(s) == {s[i] : i \in 1..Len(s)}

RECURSIVE Flatten(_)
Flatten(ss) == IF ss = <<>> THEN <<>> ELSE Head(ss) \o Flatten(Tail(ss))

\* s[a:b] of Python for 0 <= a, b <= Len(s) counted from the left.
Slice(s, a, b) == IF b <= a THEN <<>> ELSE SubSeq(s, a + 1, b)

\* ---------------------------------------------------------------- database
\* The PostgreSQL schema the script reads (covid19.entities, covid19.topics,
\* covid19.dc19_emails).  It is owned by an upstream pipeline; the model fixes
\* a small instance of it.

Date(y, m, d) == [y |-> y, m |-> m, d |-> d]
\* A sent timestamp that is SQL NULL.
NullDate == Date(0, 0, 0)
Ord(dt) == dt.y * 10000 + dt.m * 100 + dt.d

\* Rows of covid19.entities: entity, enttype.
EntityRows ==
    { [entity |-> "Fauci", enttype |-> "PERSON"],
      [entity |-> "CDC",   enttype |-> "ORG"],
      [entity |-> "Wuhan", enttype |-> "GPE"] }

\* Rows of covid19.topics.
TopicRows == {"masks", "vaccines"}

\* Rows of covid19.dc19_emails.  A row of the model stands for n emails that
\* agree on every column the script filters on.
Email(id, n, sent, words, ents, topic) ==
    [id |-> id, n |-> n, sent |-> sent, body |-> words, entities |-> ents,
     topic |-> topic, preview_email_url |-> "https://docs/preview/" \o id,
     source_email_url |-> "https://docs/source/" \o id]

EmailRows ==
    { Email("e1", 1,    Date(2020, 2, 29), {"c"}, {"Fauci"},        "masks"),
      Email("e2", 1000, Date(2020, 3, 1),  {},    {"CDC"},          "masks"),
      Email("e3", 1000, Date(2020, 3, 31), {"c"}, {"Fauci", "CDC"}, "vaccines"),
      Email("e4", 1,    Date(2020, 4, 1),  {"c"}, {"Wuhan"},        "vaccines"),
      Email("e5", 1,    NullDate,          {},    {"Wuhan"},        "masks") }

InitialDb == [entities |-> EntityRows, topics |-> TopicRows, emails |-> EmailRows]

\* ------------------------------------------------------------- SQL lexing
\* A lexeme is a word or a string literal with its content.

W(t) == [lit |-> FALSE, val |-> <<t>>]
Lit(v) == [lit |-> TRUE, val |-> v]

\* The indices 1..n in order.
Indices(n) == [i \in 1..n |-> i]

QuotesOf(toks) == {i \in 1..Len(toks) : toks[i] = "'"}

\* The first quote after position i.
NextQuote(quotes, i) == CHOOSE q \in quotes : q > i /\ \A r \in quotes : r > i => q <= r

\* The positions where a lexeme starts: those with every earlier literal closed.
LexemeStarts(toks, quotes) ==
    SelectSeq(Indices(Len(toks)), LAMBDA i : Cardinality({q \in quotes : q < i}) % 2 = 0)

Lexemes(toks, quotes, starts) ==
    [k \in 1..Len(starts) |->
        IF starts[k] \in quotes
        THEN Lit(SubSeq(toks, starts[k] + 1, NextQuote(quotes, starts[k]) - 1))
        ELSE W(toks[starts[k]])]

LexWith(toks, quotes) ==
    IF Cardinality(quotes) % 2 # 0 THEN [ok |-> FALSE, out |-> <<>>]
    ELSE [ok |-> TRUE, out |-> Lexemes(toks, quotes, LexemeStarts(toks, quotes))]

\* PostgreSQL's lexer on the quote character: a ' opens a string literal and
\* the next ' closes it; a literal still open at the end is a syntax error.
\* Every token outside a literal is a word.
Lex(toks) == LexWith(toks, QuotesOf(toks))

\* The number of parentheses open before position i.
Depth(lexs, i) ==
    Cardinality({j \in 1..(i - 1) : lexs[j] = W("(")})
    - Cardinality({j \in 1..(i - 1) : lexs[j] = W(")")})

Pieces(lexs, cuts) ==
    [k \in 1..(Len(cuts) - 1) |-> SubSeq(lexs, cuts[k] + 1, cuts[k + 1] - 1)]

\* lexs split at the words sep; with parens, only where no parenthesis is open.
SplitOn(lexs, sep, parens) ==
    Pieces(lexs,
           <<0>> \o SelectSeq(Indices(Len(lexs)),
                              LAMBDA i : lexs[i] = W(sep) /\ (~parens \/ Depth(lexs, i) = 0))
           \o <<Len(lexs) + 1>>)

\* The statements of a query string: PostgreSQL's simple query protocol runs
\* every ;-separated statement of the string it is sent.
Statements(lexs) == SelectSeq(SplitOn(lexs, ";", FALSE), LAMBDA st : st # <<>>)

IsSelect(st) == st # <<>> /\ st[1] \in {W("select"), W("SELECT")}

AllSelects(sts) == \A i \in 1..Len(sts) : IsSelect(sts[i])

ReadOnlyLexed(lx) == lx.ok => AllSelects(Statements(lx.out))

\* Whether the text is one or more statements that are all SELECTs.
ReadOnly(toks) == ReadOnlyLexed(Lex(toks))

\* The tables after the database ran the text: a statement that is not a
\* SELECT may write; the model takes the loss of the emails as the write.
DbAfter(toks, d) ==
    IF ReadOnly(toks) THEN d ELSE [d EXCEPT !.emails = {}]

\* ---------------------------------------------------------- number formats
DigitChar == <<"0", "1", "2", "3", "4", "5", "6", "7", "8", "9">>
IsDigit(t) == \E k \in 1..10 : DigitChar[k] = t
DigitValue(t) == (CHOOSE k \in 1..10 : DigitChar[k] = t) - 1

\* str(n) of Python for n >= 0, one token per digit.
RECURSIVE Digits(_)
Digits(n) == IF n < 10 THEN <<DigitChar[n + 1]>>
             ELSE Append(Digits(n \div 10), DigitChar[(n % 10) + 1])

\* n as exactly w digits, zero padded (strftime's %Y, %m, %d).
RECURSIVE Padded(_, _)
Padded(n, w) == IF w = 0 THEN <<>>
                ELSE Append(Padded(n \div 10, w - 1), DigitChar[(n % 10) + 1])

RECURSIVE ParseNat(_)
ParseNat(ds) == IF ds = <<>> THEN 0
                ELSE 10 * ParseNat(SubSeq(ds, 1, Len(ds) - 1)) + DigitValue(ds[Len(ds)])

AllDigits(ds) == ds # <<>> /\ \A i \in 1..Len(ds) : IsDigit(ds[i])

\* PostgreSQL's reading of a date literal written year/month/day.
IsDateText(v) ==
    /\ Len(v) = 10
    /\ v[5] = "/" /\ v[8] = "/"
    /\ AllDigits(SubSeq(v, 1, 4)) /\ AllDigits(SubSeq(v, 6, 7)) /\ AllDigits(SubSeq(v, 9, 10))
    /\ ParseNat(SubSeq(v, 6, 7)) \in 1..12
    /\ ParseNat(SubSeq(v, 9, 10)) \in 1..31

ParseDate(v) ==
    Date(ParseNat(SubSeq(v, 1, 4)), ParseNat(SubSeq(v, 6, 7)), ParseNat(SubSeq(v, 9, 10)))

\* ------------------------------------------------- the database's WHERE
\* What PostgreSQL makes of one predicate of the email query.  kind is "bad"
\* for text that is none of the four predicates the script writes.

Pred(kind, text, vals, start, end, nulls) ==
    [kind |-> kind, text |-> text, vals |-> vals, start |-> start, end |-> end,
     nulls |-> nulls]
BadPred == Pred("bad", <<>>, {}, NullDate, NullDate, FALSE)

\* to_tsvector('english', body) @@ websearch_to_tsquery('english', '<text>')
IsTextPred(p) ==
    /\ Len(p) = 13
    /\ SubSeq(p, 1, 11) = <<W("to_tsvector"), W("("), Lit(<<"english">>), W(","),
                            W("body"), W(")"), W("@@"), W("websearch_to_tsquery"),
                            W("("), Lit(<<"english">>), W(",")>>
    /\ p[12].lit /\ p[13] = W(")")

ArrayPunct == {"{", "}", "\"", ",", " "}

\* entities && '{"a", "b"}'::text[]
IsEntityPred(p) ==
    /\ Len(p) = 4
    /\ p[1] = W("entities") /\ p[2] = W("&&") /\ p[3].lit /\ p[4] = W("::text[]")
    /\ Len(p[3].val) >= 2
    /\ p[3].val[1] = "{" /\ p[3].val[Len(p[3].val)] = "}"

\* topic in ('a', 'b')
IsTopicPred(p) ==
    /\ Len(p) >= 5 /\ Len(p) % 2 = 1
    /\ p[1] = W("topic") /\ p[2] = W("in") /\ p[3] = W("(") /\ p[Len(p)] = W(")")
    /\ \A i \in 4..(Len(p) - 1) :
          IF i % 2 = 0 THEN p[i].lit /\ Len(p[i].val) = 1 ELSE p[i] = W(",")

\* (sent between 'y/m/d' and 'y/m/d'), with or without "or sent is null"
IsDatePred(p) ==
    /\ Len(p) \in {7, 11}
    /\ p[1] = W("(") /\ p[2] = W("sent") /\ p[3] = W("between")
    /\ p[4].lit /\ IsDateText(p[4].val)
    /\ p[5] = W("and")
    /\ p[6].lit /\ IsDateText(p[6].val)
    /\ p[Len(p)] = W(")")
    /\ Len(p) = 11 => SubSeq(p, 7, 10) = <<W("or"), W("sent"), W("is"), W("null")>>

Recognise(p) ==
    IF IsTextPred(p) THEN Pred("text", p[12].val, {}, NullDate, NullDate, FALSE)
    ELSE IF IsEntityPred(p)
    THEN Pred("entity", <<>>, Range(p[3].val) \ ArrayPunct, NullDate, NullDate, FALSE)
    ELSE IF IsTopicPred(p)
    THEN Pred("topic", <<>>, {p[i].val[1] : i \in {j \in 4..(Len(p) - 1) : j % 2 = 0}},
              NullDate, NullDate, FALSE)
    ELSE IF IsDatePred(p)
    THEN Pred("date", <<>>, {}, ParseDate(p[4].val), ParseDate(p[6].val), Len(p) = 11)
    ELSE BadPred

\* The lexemes websearch_to_tsquery keeps of a search text: its word
\* characters; quotes and punctuation carry no lexeme.
QueryWords(text) == {c \in Range(text) : c \notin {"'", "\"", ";"}}

\* Whether email row e satisfies predicate q.  A tsquery with no lexeme
\* matches no row; BETWEEN is inclusive at both ends and false on NULL.
Satisfies(e, q) ==
    CASE q.kind = "text"   -> QueryWords(q.text) # {} /\ QueryWords(q.text) \subseteq e.body
      [] q.kind = "entity" -> e.entities \cap q.vals # {}
      [] q.kind = "topic"  -> e.topic \in q.vals
      [] q.kind = "date"   ->
            IF e.sent = NullDate THEN q.nulls
            ELSE Ord(q.start) <= Ord(e.sent) /\ Ord(e.sent) <= Ord(q.end)
      [] OTHER -> FALSE

\* The select list of the email query.
SelectList ==
    "sent, subject, from_email \"from\", to_emails \"to\", foiarchive_file \"file\", file_pg_start pg, email_id id, topic top_topic, entities, source_email_url, preview_email_url"

BadQuery == [ok |-> FALSE, preds |-> <<>>, limit |-> 0]

\* The position of the last word "limit" of a statement, 0 for none.
LimitAt(st) ==
    IF \E i \in 1..Len(st) : st[i] = W("limit")
    THEN CHOOSE i \in 1..Len(st) :
            st[i] = W("limit") /\ \A j \in (i + 1)..Len(st) : st[j] # W("limit")
    ELSE 0

RecogniseAll(parts) == [i \in 1..Len(parts) |-> Recognise(parts[i])]

\* The predicates of the text between the table name and "limit".
ParseWhere(mid) ==
    IF mid = <<>> THEN <<>>
    ELSE IF mid[1] # W("where") THEN <<BadPred>>
    ELSE RecogniseAll(SplitOn(Tail(mid), "and", TRUE))

ParseLimited(preds, ds) ==
    IF ds = <<>> \/ (\E i \in 1..Len(ds) : ds[i].lit)
       \/ ~AllDigits([i \in 1..Len(ds) |-> ds[i].val[1]])
       \/ (\E i \in 1..Len(preds) : preds[i].kind = "bad")
    THEN BadQuery
    ELSE [ok |-> TRUE, preds |-> preds,
          limit |-> ParseNat([i \in 1..Len(ds) |-> ds[i].val[1]])]

ParseSelect(st, p) ==
    IF p < 5 \/ SubSeq(st, 1, 4) # <<W("select"), W(SelectList), W("from"),
                                    W("covid19.dc19_emails")>>
    THEN BadQuery
    ELSE ParseLimited(ParseWhere(SubSeq(st, 5, p - 1)), SubSeq(st, p + 1, Len(st)))

ParseStatements(sts) ==
    IF sts = <<>> THEN BadQuery ELSE ParseSelect(sts[1], LimitAt(sts[1]))

ParseLexed(lx) == IF ~lx.ok THEN BadQuery ELSE ParseStatements(Statements(lx.out))

\* The email query as the database parses it: its predicates and its limit.
\* ok is FALSE for text PostgreSQL rejects (a syntax error).
ParseEmailQuery(toks) == ParseLexed(Lex(toks))

\* The rows of covid19.dc19_emails that satisfy every predicate.
Matching(preds, d) ==
    {e \in d.emails : \A i \in 1..Len(preds) : Satisfies(e, preds[i])}

RECURSIVE Total(_)
Total(rows) == IF rows = {} THEN 0
               ELSE LET e == CHOOSE x \in rows : TRUE IN e.n + Total(rows \ {e})

Limited(all, total, limit) ==
    IF total <= limit
    THEN {[ok |-> TRUE, rows |-> all, count |-> total]}
    ELSE {[ok |-> TRUE, rows |-> kept, count |-> limit] :
             kept \in {k \in SUBSET all : Total(k) >= limit}}

ResultsOf(q, all) ==
    IF ~q.ok THEN {[ok |-> FALSE, rows |-> {}, count |-> 0]}
    ELSE Limited(all, Total(all), q.limit)

ParsedResults(q, d) == ResultsOf(q, Matching(q.preds, d))

\* The results the database may return: the statement has no ORDER BY, so a
\* LIMIT that cuts the result keeps any rows that add up to the limit.
QueryResults(toks, d) == ParsedResults(ParseEmailQuery(toks), d)

Literals(lexs) == {lexs[i].val[1] : i \in {j \in 1..Len(lexs) : lexs[j].lit}}

EntitiesOfTypes(types, d) == {r.entity : r \in {x \in d.entities : x.enttype \in types}}

EntityQueryLexed(lx, d) == IF ~lx.ok THEN {} ELSE EntitiesOfTypes(Literals(lx.out), d)

\* SELECT entity from covid19.entities where enttype <qual> order by entity:
\* the entities whose type is one of the literals of qual.
EntityQueryResult(toks, d) == EntityQueryLexed(Lex(toks), d)

\* ------------------------------------------------------------------ sqlgen
\* The helper module the script imports as sg.

\* Appends a predicate to the list unless the predicate is empty.
sg_add_predicate(predicates, predicate) ==
    IF predicate = <<>> THEN predicates ELSE Append(predicates, predicate)

RECURSIVE QuotedList(_)
QuotedList(values) ==
    IF Len(values) = 1 THEN <<"'", values[1], "'">>
    ELSE <<"'", values[1], "'", ",">> \o QuotedList(Tail(values))

\* column in ('v1', 'v2', ...), or no predicate for no values.
sg_lov_predicate(column, values) ==
    IF values = <<>> THEN <<>>
    ELSE <<column, "in", "(">> \o QuotedList(values) \o <<")">>

\* date.strftime for the directives %Y, %m and %d; other text is copied.
Directive(dt, f) ==
    CASE f = "%Y" -> Padded(dt.y, 4)
      [] f = "%m" -> Padded(dt.m, 2)
      [] f = "%d" -> Padded(dt.d, 2)
      [] OTHER    -> <<f>>

strftime(dt, format) == Flatten([i \in 1..Len(format) |-> Directive(dt, format[i])])

\* No date: the None of the source.
NoDate == <<>>

\* The two ends of a chosen range as text; (None, None) unless both are chosen.
sg_convert_daterange(dates, format) ==
    IF Len(dates) = 2
    THEN <<strftime(dates[1], format), strftime(dates[2], format)>>
    ELSE <<NoDate, NoDate>>

\* (column between 'start' and 'end'), widened by "or column is null" when
\* undated rows are included; no predicate when no range is chosen.
sg_daterange_predicate(column, start_date, end_date, null_date, min_date, max_date) ==
    IF start_date = NoDate \/ end_date = NoDate THEN <<>>
    ELSE <<"(", column, "between", "'">> \o start_date \o <<"'", "and", "'">>
         \o end_date \o <<"'">>
         \o (IF null_date THEN <<"or", column, "is", "null">> ELSE <<>>)
         \o <<")">>

RECURSIVE JoinAnd(_)
JoinAnd(predicates) ==
    IF Len(predicates) = 1 THEN predicates[1]
    ELSE predicates[1] \o <<"and">> \o JoinAnd(Tail(predicates))

\* where p1 and p2 and ..., or nothing for no predicates.
sg_where_clause(predicates) ==
    IF predicates = <<>> THEN <<>> ELSE <<"where">> \o JoinAnd(predicates)

\* -------------------------------------------------------------- the script

VARIABLES
    form,               \* the submitted values of the query_params form
    selected,           \* the grid's selected row (an email id) or None
    db,                 \* the tables of the covid19 schema
    statements,         \* the query strings the last run sent to the database
    sql_predicates,     \* the script's variables of the same names,
    display_predicates, \*   as the last run left them
    where_clause,
    query_display,
    emqry,
    emdf,               \* the ids of the rows the email query returned
    emcnt,
    results_header,     \* the text of the "## Results" block
    requests,           \* the URLs the last run sent an HTTP GET to
    response,           \* the status code of the last answer, 0 for no fetch
    shown               \* what the last run displayed below the grid

vars == <<form, selected, db, statements, sql_predicates, display_predicates,
          where_clause, query_display, emqry, emdf, emcnt, results_header,
          requests, response, shown>>

MIN_SENT == Date(2019, 11, 1)
MAX_SENT == Date(2021, 5, 8)
MAX_LIMIT == 2000

get_entity_list(qual) ==
    <<"SELECT", "entity", "from", "covid19.entities", "where", "enttype">>
    \o qual \o <<"order by entity">>

get_topic_list == <<"select", "topic", "from", "covid19.topics", "order by topic">>

PersonQual == <<"=", "'", "PERSON", "'">>
OrgQual == <<"=", "'", "ORG", "'">>
LocQual == <<"in", "(", "'", "GPE", "'", ",", "'", "LOC", "'", ",", "'", "NORP", "'",
             ",", "'", "FAC", "'", ")">>

person_list(d) == EntityQueryResult(get_entity_list(PersonQual), d)
org_list(d) == EntityQueryResult(get_entity_list(OrgQual), d)
loc_list(d) == EntityQueryResult(get_entity_list(LocQual), d)
topic_list(d) == d.topics

chartqry ==
    <<"select", "date(sent) date, count(*) emails", "from", "covid19.emails",
      "where", "sent", "between", "'", "2019-11-01", "'", "and", "'", "2021-05-07", "'",
      "group by date", "order by date", ";">>

selfrom == <<"select", SelectList, "from", "covid19.dc19_emails">>

\* str.replace(old, new) on a text of one-character tokens.
\* A replace that leaves the text as typed.
replaceNothing(text, old, new) == text

replace(text, old, new) == [i \in 1..Len(text) |-> IF text[i] = old THEN new ELSE text[i]]

\* Predicate lists that keep what the earlier run appended.
PredicatesCarriedOver(carried) == carried

\* The two predicate lists as the script has them at line 92, whatever an
\* earlier run left in them.
PredicatesAtTop(carried) == [sql |-> <<>>, display |-> <<>>]

\* A full-text block that adds its predicates for an empty search text too.
FullTextStepUnguarded(lists, ftq_text) ==
    [sql |-> sg_add_predicate(lists.sql,
               <<"to_tsvector", "(", "'", "english", "'", ",", "body", ")", "@@",
                 "websearch_to_tsquery", "(", "'", "english", "'", ",", "'">>
               \o [i \in 1..Len(ftq_text) |-> IF ftq_text[i] = "'" THEN "\"" ELSE ftq_text[i]]
               \o <<"'", ")">>),
     display |-> sg_add_predicate(lists.display,
               <<"text body contains ", "'">>
               \o [i \in 1..Len(ftq_text) |-> IF ftq_text[i] = "'" THEN "\"" ELSE ftq_text[i]]
               \o <<"'">>)]

\* A full-text block that embeds the search text as typed.
FullTextStepRaw(lists, ftq_text) ==
    IF ftq_text # <<>>
    THEN [sql |-> sg_add_predicate(lists.sql,
                    <<"to_tsvector", "(", "'", "english", "'", ",", "body", ")", "@@",
                      "websearch_to_tsquery", "(", "'", "english", "'", ",", "'">>
                    \o ftq_text \o <<"'", ")">>),
          display |-> sg_add_predicate(lists.display,
                    <<"text body contains ", "'">> \o ftq_text \o <<"'">>)]
    ELSE lists

\* The full-text block.
FullTextStep(lists, ftq_text) ==
    IF ftq_text # <<>>
    THEN LET text == replace(ftq_text, "'", "\"")
         IN  [sql |-> sg_add_predicate(lists.sql,
                        <<"to_tsvector", "(", "'", "english", "'", ",", "body", ")", "@@",
                          "websearch_to_tsquery", "(", "'", "english", "'", ",", "'">>
                        \o text \o <<"'", ")">>),
              display |-> sg_add_predicate(lists.display,
                        <<"text body contains ", "'">> \o text \o <<"'">>)]
    ELSE lists

\* The loop that builds the entity array literal '{"a", "b"}'.
RECURSIVE EntinclLoop(_, _)
EntinclLoop(entincl, entities) ==
    IF entities = <<>> THEN entincl
    ELSE EntinclLoop(entincl \o <<"\"", Head(entities), "\"", ",", " ">>, Tail(entities))

Entincl(entities) ==
    LET looped == EntinclLoop(<<"'", "{">>, entities)
    IN  Slice(looped, 0, Len(looped) - 2) \o <<"}", "'">>

\* An entities block that adds the SQL predicate and no explanation.
EntityStepNoExplain(lists, entities) ==
    IF entities # <<>>
    THEN [sql |-> sg_add_predicate(lists.sql,
                    <<"entities", "&&">> \o Entincl(entities) \o <<"::text[]">>),
          display |-> lists.display]
    ELSE lists

\* The entities block.
EntityStep(lists, entities) ==
    IF entities # <<>>
    THEN LET entincl == Entincl(entities)
             entity_predicate == <<"entities", "&&">> \o entincl \o <<"::text[]">>
             tq == IF Len(entities) > 1 THEN "at least one of" ELSE ""
             entity_explain == <<" and email references ", tq, " ">>
                               \o Slice(entincl, 2, Len(entincl) - 2)
         IN  [sql |-> sg_add_predicate(lists.sql, entity_predicate),
              display |-> sg_add_predicate(lists.display, entity_explain)]
    ELSE lists

\* The topics block.
TopicStep(lists, topics) ==
    LET topics_predicate == sg_lov_predicate("topic", topics)
    IN  [sql |-> sg_add_predicate(lists.sql, topics_predicate),
         display |-> sg_add_predicate(lists.display, topics_predicate)]

DateFormat == <<"%Y", "/", "%m", "/", "%d">>

\* A dates block that always asks for the undated emails.
DateStepNullAlways(lists, dates, null_date) ==
    [sql |-> sg_add_predicate(lists.sql,
               sg_daterange_predicate("sent", sg_convert_daterange(dates, DateFormat)[1],
                                      sg_convert_daterange(dates, DateFormat)[2], TRUE,
                                      MIN_SENT, MAX_SENT)),
     display |-> sg_add_predicate(lists.display,
               sg_daterange_predicate("sent", sg_convert_daterange(dates, DateFormat)[1],
                                      sg_convert_daterange(dates, DateFormat)[2], TRUE,
                                      MIN_SENT, MAX_SENT))]

\* The dates block.
DateStep(lists, dates, null_date) ==
    LET range == sg_convert_daterange(dates, DateFormat)
        date_predicate == sg_daterange_predicate("sent", range[1], range[2], null_date,
                                                 MIN_SENT, MAX_SENT)
    IN  [sql |-> sg_add_predicate(lists.sql, date_predicate),
         display |-> sg_add_predicate(lists.display, date_predicate)]

\* A statement that writes the WHERE keyword whatever the clause.
EmqryWhereAlways(where) ==
    selfrom \o <<"where">> \o (IF where = <<>> THEN <<>> ELSE Tail(where))
    \o <<"limit">> \o Digits(MAX_LIMIT)

\* emqry = selfrom + where_clause + f' limit {MAX_LIMIT}'
Emqry(where) == selfrom \o where \o <<"limit">> \o Digits(MAX_LIMIT)

\* A marker shown only above the limit.
MaxLimitMarkerStrict(count) == IF count > MAX_LIMIT THEN "(max limit)" ELSE ""

\* The marker of the results header.
MaxLimitMarker(count) == IF count = MAX_LIMIT THEN "(max limit)" ELSE ""

ResultsHeader(count, display) ==
    <<"## Results">> \o Digits(count) \o <<MaxLimitMarker(count), "emails">> \o display
    \o <<"select row to view additional details">>

\* What the script shows for a response to the preview fetch.
Display(kind, text) == [kind |-> kind, text |-> text]

\* A display that does not look at the status code.
ShowResponseUnchecked(row, status_code) ==
    {Display("details", <<row.id>>),
     Display("pdf_viewer", <<row.preview_email_url>>),
     Display("markdown", <<"**[view full PDF](", row.source_email_url, ")**">>)}

ShowResponse(row, status_code) ==
    {Display("details", <<row.id>>)} \cup
    IF status_code = 200
    THEN {Display("pdf_viewer", <<row.preview_email_url>>),
          Display("markdown", <<"**[view full PDF](", row.source_email_url, ")**">>)}
    ELSE {Display("write", <<"Failed to download ", row.preview_email_url,
                             ", status code: ">> \o Digits(status_code) \o <<".">>)}

\* A fetch that is tried again after a failure.
PreviewRequestsRetry(row, status_code) ==
    IF status_code = 200 THEN <<row.preview_email_url>>
    ELSE <<row.preview_email_url, row.preview_email_url>>

\* The HTTP GETs of the block under the grid for the selected row, when the
\* document server answers with status_code.
PreviewRequests(row, status_code) == <<row.preview_email_url>>

\* No fetch: the status code of no response.
NoResponse == 0

\* The status codes the document server answers with.
HttpStatus == {200, 404}

RECURSIVE RunAll(_, _)
RunAll(queries, d) ==
    IF queries = <<>> THEN d ELSE RunAll(Tail(queries), DbAfter(Head(queries), d))

EmptyLists == [sql |-> <<>>, display |-> <<>>]

\* The blocks of lines 94 to 125 in turn.
Predicates(lists0, f) ==
    DateStep(TopicStep(EntityStep(FullTextStep(lists0, f.ftq_text),
                                  f.persons \o f.orgs \o f.locations),
                       f.topics),
             f.dates, f.null_date)

\* The query strings of one run, in the order the script sends them.
Sent(query) ==
    <<get_entity_list(PersonQual), get_entity_list(OrgQual), get_entity_list(LocQual),
      get_topic_list, chartqry, query>>

Queried(f, lists, where, disp, query, d) ==
    [form |-> f, db |-> RunAll(Sent(query), d), statements |-> Sent(query),
     sql_predicates |-> lists.sql, display_predicates |-> lists.display,
     where_clause |-> where, query_display |-> disp, emqry |-> query,
     results |-> QueryResults(query, d)]

Composed(f, lists, where, d) ==
    Queried(f, lists, where, sg_where_clause(lists.display), Emqry(where), d)

WithLists(f, lists, d) == Composed(f, lists, sg_where_clause(lists.sql), d)

\* The script from its top to the query's result (lines 22 to 133) for the
\* form values f, with lists0 the predicate lists as line 92 leaves them and
\* d the tables: the variables it sets and the results the database may give.
ScriptTop(lists0, f, d) == WithLists(f, Predicates(lists0, f), d)

\* The rest of the script (lines 133 to 185) on result res of the query, when
\* the grid comes back with row want selected (None: no row): what it sets
\* and shows, for every answer of the document server.
ScriptRest(top, res, want) ==
    LET Out(sel, reqs, code, disps) ==
            [form |-> top.form, db |-> top.db, statements |-> top.statements,
             sql_predicates |-> top.sql_predicates,
             display_predicates |-> top.display_predicates,
             where_clause |-> top.where_clause, query_display |-> top.query_display,
             emqry |-> top.emqry,
             emdf |-> {e.id : e \in res.rows}, emcnt |-> res.count,
             results_header |-> IF res.ok THEN ResultsHeader(res.count, top.query_display)
                                ELSE <<>>,
             selected |-> sel, requests |-> reqs, response |-> code, shown |-> disps]
    IN  IF res.ok /\ want \in {e.id : e \in res.rows}
        THEN LET row == CHOOSE e \in res.rows : e.id = want
             IN  {Out(want, PreviewRequests(row, code), code, ShowResponse(row, code)) :
                      code \in HttpStatus}
        ELSE {Out(None, <<>>, NoResponse, {})}

\* ------------------------------------------------------------ interactions

\* What st.multiselect returns over options S: the chosen options, in the
\* order they were chosen.
Selections(S) ==
    {s \in SeqsUpTo(S, Cardinality(S)) : \A i, j \in 1..Len(s) : i # j => s[i] # s[j]}

\* The days the user picks in the date widget.
PickableDates == {Date(2020, 3, 1), Date(2020, 3, 31)}

\* What st.date_input returns for a range: nothing, the start alone while the
\* range is half chosen, or start and end with start <= end.
DateChoices ==
    {<<>>} \cup {<<a>> : a \in PickableDates}
    \cup {<<r[1], r[2]>> : r \in {x \in PickableDates \X PickableDates : Ord(x[1]) <= Ord(x[2])}}

\* The values of the form's widgets before the user touches them.
DefaultForm ==
    [ftq_text |-> <<>>, persons |-> <<>>, orgs |-> <<>>, locations |-> <<>>,
     topics |-> <<>>, dates |-> <<>>, null_date |-> TRUE]

\* The forms the user can submit next: the current values with at most one
\* widget changed.  Every combination of values is reached by a sequence of
\* such submissions.
NextForms(f, d) ==
    {f}
    \cup {[f EXCEPT !.ftq_text = t] : t \in SeqsUpTo(Char, MaxLen)}
    \cup {[f EXCEPT !.persons = x] : x \in Selections(person_list(d))}
    \cup {[f EXCEPT !.orgs = x] : x \in Selections(org_list(d))}
    \cup {[f EXCEPT !.locations = x] : x \in Selections(loc_list(d))}
    \cup {[f EXCEPT !.topics = x] : x \in Selections(topic_list(d))}
    \cup {[f EXCEPT !.dates = x] : x \in DateChoices}
    \cup {[f EXCEPT !.null_date = b] : b \in BOOLEAN}

\* Every combination of form values over the lists of the initial tables.
Forms ==
    [ftq_text : SeqsUpTo(Char, MaxLen), persons : Selections(person_list(InitialDb)),
     orgs : Selections(org_list(InitialDb)), locations : Selections(loc_list(InitialDb)),
     topics : Selections(topic_list(InitialDb)), dates : DateChoices,
     null_date : BOOLEAN]

\* ScriptTop from empty lists on the initial tables, evaluated once per form
\* (@@ makes the function a table).
ScriptTopOf == [f \in Forms |-> ScriptTop(EmptyLists, f, InitialDb)] @@ <<>>

RunsFrom(top, want) == UNION {ScriptRest(top, res, want) : res \in top.results}

\* One run of the script from the top: every outcome it can have.  The
\* nondeterminism is the database's choice of rows under the limit and the
\* document server's answer.
ScriptRuns(f, want, carried, d) ==
    IF PredicatesAtTop(carried) = EmptyLists /\ d = InitialDb /\ f \in Forms
    THEN RunsFrom(ScriptTopOf[f], want)
    ELSE RunsFrom(ScriptTop(PredicatesAtTop(carried), f, d), want)

Assign(out) ==
    /\ form' = out.form
    /\ selected' = out.selected
    /\ db' = out.db
    /\ statements' = out.statements
    /\ sql_predicates' = out.sql_predicates
    /\ display_predicates' = out.display_predicates
    /\ where_clause' = out.where_clause
    /\ query_display' = out.query_display
    /\ emqry' = out.emqry
    /\ emdf' = out.emdf
    /\ emcnt' = out.emcnt
    /\ results_header' = out.results_header
    /\ requests' = out.requests
    /\ response' = out.response
    /\ shown' = out.shown

Carried == [sql |-> sql_predicates, display |-> display_predicates]

\* The first run of the script, when the page is opened.
Init ==
    \E out \in ScriptRuns(DefaultForm, None, EmptyLists, InitialDb) :
        /\ form = out.form
        /\ selected = out.selected
        /\ db = out.db
        /\ statements = out.statements
        /\ sql_predicates = out.sql_predicates
        /\ display_predicates = out.display_predicates
        /\ where_clause = out.where_clause
        /\ query_display = out.query_display
        /\ emqry = out.emqry
        /\ emdf = out.emdf
        /\ emcnt = out.emcnt
        /\ results_header = out.results_header
        /\ requests = out.requests
        /\ response = out.response
        /\ shown = out.shown

\* The user presses "Execute Search".  The grid is drawn again with the new
\* result and keeps its selection or loses it.
Submit ==
    \E f \in NextForms(form, db) : \E want \in {None, selected} :
        \E out \in ScriptRuns(f, want, Carried, db) : Assign(out)

\* The user selects row r of the grid.
SelectRow ==
    \E r \in emdf :
        /\ r # selected
        /\ \E out \in ScriptRuns(form, r, Carried, db) : Assign(out)

\* The user clears the grid's selection.
Deselect ==
    /\ selected # None
    /\ \E out \in ScriptRuns(form, None, Carried, db) : Assign(out)

Next == Submit \/ SelectRow \/ Deselect

Spec == Init /\ [][Next]_vars

\* ------------------------------------------------------------ properties

Entities(f) == f.persons \o f.orgs \o f.locations

FilterKinds == {"text", "entity", "topic", "date"}

\* Whether the user supplied the filter in the submitted form.
Supplied(f, kind) ==
    CASE kind = "text"   -> f.ftq_text # <<>>
      [] kind = "entity" -> Entities(f) # <<>>
      [] kind = "topic"  -> f.topics # <<>>
      [] kind = "date"   -> Len(f.dates) = 2

NoFilters(f) == \A k \in FilterKinds : ~Supplied(f, k)

KindCount(preds, k) == Cardinality({i \in 1..Len(preds) : preds[i].kind = k})

\* The search text with every ' turned into ".
Requoted(text) == [i \in 1..Len(text) |-> IF text[i] = "'" THEN "\"" ELSE text[i]]

\* Whether predicate q, as the database reads it, is the filter of its kind
\* with the values of form f.
IsFilterOf(q, f) ==
    CASE q.kind = "text"   -> q.text = Requoted(f.ftq_text)
      [] q.kind = "entity" -> q.vals = Range(Entities(f))
      [] q.kind = "topic"  -> q.vals = Range(f.topics)
      [] q.kind = "date"   -> /\ Len(f.dates) = 2
                              /\ q.start = f.dates[1] /\ q.end = f.dates[2]
                              /\ q.nulls = f.null_date
      [] OTHER -> FALSE

ClausePredicates(clause) == ParseWhere(Lex(clause).out)

ExactPredicates(preds, f) ==
    /\ \A k \in FilterKinds : KindCount(preds, k) = IF Supplied(f, k) THEN 1 ELSE 0
    /\ \A i \in 1..Len(preds) : preds[i].kind \in FilterKinds /\ IsFilterOf(preds[i], f)

\* C1: the WHERE clause holds exactly one predicate for each filter the form
\* supplies, carrying that filter's values, none for a filter it does not
\* supply, and the predicates are the operands of its top-level ANDs.
C1_ExactPredicates ==
    /\ Lex(where_clause).ok
    /\ ExactPredicates(ClausePredicates(where_clause), form)

C1_AllFourSupplied ==
    /\ \A k \in FilterKinds : Supplied(form, k)
    /\ Len(sql_predicates) = 4

LimitText == <<"limit", "2", "0", "0", "0">>

\* C2: with no filter supplied the clause is empty and the statement is the
\* base select followed directly by the limit: it holds no WHERE and no AND,
\* and the database accepts it.
C2_NoDanglingWhenEmpty ==
    NoFilters(form) =>
        /\ where_clause = <<>>
        /\ emqry = selfrom \o LimitText
        /\ "where" \notin Range(emqry) /\ "and" \notin Range(emqry)
        /\ ParseEmailQuery(emqry).ok

C2_EmptyFormSubmitted ==
    /\ NoFilters(form) /\ form.dates = <<>> /\ ~form.null_date
    /\ emcnt = 2000

\* The filter an explanation predicate speaks of, by the text it starts with.
DisplayKind(p) ==
    CASE p[1] = "text body contains "      -> "text"
      [] p[1] = " and email references "   -> "entity"
      [] p[1] = "topic"                    -> "topic"
      [] p[1] = "("                        -> "date"
      [] OTHER                             -> "bad"

SqlKind(p) == Recognise(Lex(p).out).kind

\* C3: the explanation has as many predicates as the SQL clause, and the two
\* lists speak of the same filters in the same order.
C3_SameCount ==
    /\ Len(display_predicates) = Len(sql_predicates)
    /\ \A i \in 1..Len(sql_predicates) :
          i <= Len(display_predicates)
          /\ DisplayKind(display_predicates[i]) = SqlKind(sql_predicates[i])

C3_SeveralEntities ==
    /\ Len(Entities(form)) > 1
    /\ Len(sql_predicates) = 3 /\ Len(display_predicates) = 3

\* The date filter the claim describes, on a sent date.
InRange(sent, f) ==
    IF sent = NullDate THEN f.null_date
    ELSE Ord(f.dates[1]) <= Ord(sent) /\ Ord(sent) <= Ord(f.dates[2])

HasDatePredicate(q, f, d) ==
    /\ q.ok
    /\ \E i \in 1..Len(q.preds) :
          /\ q.preds[i].kind = "date"
          /\ \A e \in d.emails : Satisfies(e, q.preds[i]) <=> InRange(e.sent, f)

InRangeIds(f, d) == {e.id : e \in {x \in d.emails : InRange(x.sent, f)}}

OnlyDates(f) == \A k \in FilterKinds \ {"date"} : ~Supplied(f, k)

UrlOf(id) == (CHOOSE e \in EmailRows : e.id = id).preview_email_url

\* C5: a run sends exactly one GET, to the selected row's preview URL, when
\* a row is selected, and none when no row is selected.
C5_OneGetPerSelectedRow ==
    IF selected = None THEN requests = <<>> /\ response = NoResponse
    ELSE requests = <<UrlOf(selected)>>

C5_FailedFetchOnce ==
    /\ selected # None /\ response \notin {NoResponse, 200}
    /\ Len(requests) = 1

Kinds(displays) == {s.kind : s \in displays}

Contains(text, part) ==
    \E i \in 0..(Len(text) - Len(part)) : SubSeq(text, i + 1, i + Len(part)) = part

\* C6: a status other than 200 shows an error message with that status code
\* and neither the viewer nor the link; status 200 shows the viewer and the
\* link and no error message.
C6_ErrorOrViewer ==
    /\ response = 200 =>
          {"pdf_viewer", "markdown"} \subseteq Kinds(shown) /\ "write" \notin Kinds(shown)
    /\ response \notin {NoResponse, 200} =>
          /\ \E s \in shown : s.kind = "write" /\ Contains(s.text, Digits(response))
          /\ "pdf_viewer" \notin Kinds(shown) /\ "markdown" \notin Kinds(shown)
    /\ response = NoResponse => shown = {}

C6_ErrorShown ==
    /\ response = 404
    /\ \E s \in shown : s.kind = "write" /\ Contains(s.text, <<"4", "0", "4">>)

\* C7: what a run leaves in the predicate lists, the clause, the explanation
\* and the statement is what a first run on the same form values leaves:
\* nothing of an earlier run is carried over.
C7_DependsOnlyOnForm ==
    /\ form \in Forms
    /\ sql_predicates = ScriptTopOf[form].sql_predicates
    /\ display_predicates = ScriptTopOf[form].display_predicates
    /\ where_clause = ScriptTopOf[form].where_clause
    /\ query_display = ScriptTopOf[form].query_display
    /\ emqry = ScriptTopOf[form].emqry

\* Each submission changes one widget, so a form that differs from the
\* default in two widgets and not in the others has at least two runs
\* behind it.
C7_AfterSeveralSubmissions ==
    /\ form.ftq_text = <<>> /\ Entities(form) = <<>>
    /\ form.topics # <<>> /\ Len(form.dates) = 2
    /\ Len(sql_predicates) = 2

SingleSelect(toks) ==
    /\ Lex(toks).ok
    /\ Len(Statements(Lex(toks).out)) = 1
    /\ IsSelect(Statements(Lex(toks).out)[1])

C9_LimitAndMarker ==
    /\ Len(emqry) >= 5 /\ SubSeq(emqry, Len(emqry) - 4, Len(emqry)) = LimitText
    /\ emcnt <= 2000
    /\ ("(max limit)" \in Range(results_header)) <=> (emcnt = 2000)

C9_ResultCut ==
    /\ NoFilters(form)
    /\ emcnt = 2000 /\ "(max limit)" \in Range(results_header)
    /\ Cardinality(emdf) < Cardinality(EmailRows)

QuoteCount(toks) == Cardinality({i \in 1..Len(toks) : toks[i] = "'"})

EmbedsRequoted(q, text) ==
    /\ q.ok
    /\ q.preds # <<>> /\ q.preds[1].kind = "text"
    /\ q.preds[1].text = Requoted(text)
    /\ "'" \notin Range(q.preds[1].text)

\* C10: the search text reaches the database as the content of one string
\* literal, with every ' replaced by ": the predicate holds no quote but the
\* six of its own literals.
C10_QuotesReplaced ==
    form.ftq_text # <<>> =>
        /\ QuoteCount(sql_predicates[1]) = 6
        /\ EmbedsRequoted(ParseEmailQuery(emqry), form.ftq_text)

C10_QuoteTyped ==
    /\ "'" \in Range(form.ftq_text) /\ "c" \in Range(form.ftq_text)
    /\ emdf # {}

====
